---------------------------- MODULE Spec2Model ----------------------------
(* Remote build lifecycle of TDWUtils (Python/tdw/tdw_utils.py):           *)
(* launch_build, _send_start_build, _keep_alive_thread, _send_keep_alive   *)
(* and _send_kill_build, with the zmq REQ sockets they talk over.          *)
(*                                                                         *)
(* One "session" is one call of launch_build: its REQ socket, the          *)
(* build_info the daemon replied with, and the daemon thread that runs     *)
(* _keep_alive_thread on that socket.  The caller is one sequential        *)
(* control flow; the keep-alive threads run concurrently with it.          *)
(* Time is kept as elapsed-time counters that advance in steps of Tick     *)
(* and saturate once they have passed Interval.                            *)
(*                                                                         *)
(* AudioUtils (start, stop, is_recording and its two class attributes) is  *)
(* modelled beside it and run on its own under AudioSpec.                  *)
EXTENDS Integers, FiniteSets, Sequences, TLC

\* ------------------------------------------------------------- bounds
\* number of launch_build calls the caller makes
MaxSessions == 2
\* seconds by which one step of the clock advances the elapsed-time counters
Tick == 30
\* the process ids the system hands out to recorder processes are 1..MaxPid
MaxPid == 3

\* ---------------------------------------------------------- constants
\* time.sleep(60) in _keep_alive_thread
Interval == 60
\* the port launch_binaries listens on (listener_port); build ports follow it
ListenerPort == 5556

Sessions == 1..MaxSessions
\* the ports the daemon can hand out in a start reply
Ports == (ListenerPort + 1)..(ListenerPort + MaxSessions)

\* Python's None
None == [none |-> TRUE]
\* a start reply without a build_port (what the daemon sends when it cannot start a build)
MalformedReply == [error |-> "no build"]
PortReply(p) == [build_port |-> p]
HasPort(d) == "build_port" \in DOMAIN d

\* What the program records about a session beyond the thread's own locals:
\* launch_build keeps socket, build_info and thread in locals and stores none
\* of them, so there is no registry entry and no status for any build_port.
SessionRegistry == [p \in {} |-> [status |-> "Alive"]]

\* the controller addresses the caller passes to launch_build
FirstAddress == "10.0.0.1"
ControllerAddresses == {FirstAddress, "10.0.0.2"}

\* Channel 0 is a REQ socket of the caller's own; channel i is the socket that
\* launch_build call i created.
Channels == 0..MaxSessions

VARIABLES
    callerPc,    \* "idle" | "start_recv" | "kill_recv" | "exited": where the caller is
    cur,         \* the session the caller's blocked call is about (0: none)
    outcome,     \* per session, of its launch_build call: "none" | "pending" | "returned" | "raised"
    startReply,  \* per session: the reply the daemon gave to start_build (None before)
    build_info,  \* per session: the build_info local of launch_build, handed to the thread
    returned,    \* per session: the value launch_build returned to the caller
    startSent,   \* per session: number of start_build requests sent
    startMsg,    \* per session: the start_build request sent (None before)
    sock,        \* per channel: state of the REQ socket: "none" | "ready" | "awaiting"
    efsm,        \* per channel: a send was attempted while a reply was awaited (zmq EFSM)
    thread,      \* per session: "none" | "send" | "recv" | "sleep" | "keyerror" | "zmqerror" | "killed"
    slept,       \* per session: seconds spent in the current time.sleep
    sinceKa,     \* per session: seconds since its running thread last sent a keep_alive
    kaSent,      \* per session: a keep_alive request has been sent
    kaReplied,   \* per session: a keep_alive reply has been received
    kaMsg,       \* per session: the last keep_alive request sent
    killSent,    \* per session: a kill_build request has been sent with its build_info
    killErr,     \* a _send_kill_build call raised KeyError
    RECORDER_PID,       \* AudioUtils.RECORDER_PID: None or the pid of the last recorder started
    DEVICE,             \* AudioUtils.DEVICE: None or the capture device
    procs,              \* the pids of the fmedia recorder processes that exist
    quitIssued,         \* the last AudioUtils.stop() ran fmedia --globcmd=quit
    prevOp,             \* the AudioUtils call before the last: "none" | "start" | "start_failed" | "stop"
    lastOp,             \* the last AudioUtils call
    startedSinceStop    \* a start() has launched a recorder since the last stop() (or ever, if none)

vars == <<callerPc, cur, outcome, startReply, build_info, returned, startSent, startMsg, sock, efsm,
          thread, slept, sinceKa, kaSent, kaReplied, kaMsg, killSent, killErr,
          RECORDER_PID, DEVICE, procs, quitIssued, prevOp, lastOp, startedSinceStop>>

callerVars == <<callerPc, cur, outcome, startReply, build_info, returned, startSent, startMsg>>
threadVars == <<thread, slept, sinceKa, kaSent, kaReplied, kaMsg>>
killVars == <<killSent, killErr>>
audioVars == <<RECORDER_PID, DEVICE, procs, quitIssued, prevOp, lastOp, startedSinceStop>>
launchVars == <<callerVars, sock, efsm, threadVars, killVars>>

Init ==
    /\ callerPc = "idle"
    /\ cur = 0
    /\ outcome = [i \in Sessions |-> "none"]
    /\ startReply = [i \in Sessions |-> None]
    /\ build_info = [i \in Sessions |-> None]
    /\ returned = [i \in Sessions |-> None]
    /\ startSent = [i \in Sessions |-> 0]
    /\ startMsg = [i \in Sessions |-> None]
    /\ sock = [c \in Channels |-> IF c = 0 THEN "ready" ELSE "none"]
    /\ efsm = [c \in Channels |-> FALSE]
    /\ thread = [i \in Sessions |-> "none"]
    /\ slept = [i \in Sessions |-> 0]
    /\ sinceKa = [i \in Sessions |-> 0]
    /\ kaSent = [i \in Sessions |-> FALSE]
    /\ kaReplied = [i \in Sessions |-> FALSE]
    /\ kaMsg = [i \in Sessions |-> None]
    /\ killSent = [i \in Sessions |-> FALSE]
    /\ killErr = FALSE
    /\ RECORDER_PID = None
    /\ DEVICE = None
    /\ procs = {}
    /\ quitIssued = FALSE
    /\ prevOp = "none"
    /\ lastOp = "none"
    /\ startedSinceStop = FALSE

\* ------------------------------------------------------------ helpers
\* an elapsed-time counter after one clock step; it saturates once past Interval
Elapse(e) == IF e >= Interval THEN e ELSE e + Tick

\* the ports of the builds the daemon has started so far
PortsInUse == {startReply[i].build_port : i \in {j \in Sessions : HasPort(startReply[j])}}
\* the replies the daemon can give to a start_build: a port no build of it has
\* (ports are only ever compared for equality, so the daemon is taken to hand
\* them out in increasing order), or a reply without a port
FreePorts == {p \in Ports : \A q \in PortsInUse : q < p}
StartReplies == {PortReply(p) : p \in FreePorts} \cup {MalformedReply}

\* the controller_address of a launch_build call: the caller's first call is
\* made with the first address (the addresses are only ever copied into the
\* request), a later one with any
AddressChoices ==
    IF \A i \in Sessions : outcome[i] = "none" THEN {FirstAddress} ELSE ControllerAddresses

\* a thread that is still running _keep_alive_thread
Live(i) == thread[i] \in {"send", "recv", "sleep"}

\* --------------------------------------------------- the code's pieces
\* a launch_build that hands back the port it connected to, not the build's
StartBuildResult_Mut(reply) == IF HasPort(reply) THEN PortReply(ListenerPort) ELSE reply
\* _send_start_build: build_info = socket.recv_json(); return build_info
StartBuildResult(reply) == reply

\* _send_start_build: request = {"type": "start_build", "controller_address": controller_address}
StartBuildRequest(addr) == [type |-> "start_build", controller_address |-> addr]

\* a launch_build that keeps one socket for all its calls
SessChan_Mut(i) == 1
\* the socket of session i: every launch_build call makes a context and a REQ
\* socket of its own and hands that socket to the thread it starts
SessChan(i) == i

\* _send_keep_alive: request = {"type": "keep_alive", "build_port": build_port}
KeepAliveRequest(info) == [type |-> "keep_alive", build_port |-> info.build_port]

\* a loop that does not wait between two heartbeats
SleepDone_Mut(e) == TRUE
\* time.sleep(60) has returned once 60 seconds have been slept
SleepDone(e) == e >= Interval

\* a loop that catches the exception of an exchange and carries on
ThreadAfterRaise_Mut == "send"
\* _keep_alive_thread has no try/except: an exception out of _send_keep_alive
\* ends the thread
ThreadAfterRaise == "zmqerror"

\* a caller that is handed, and uses, the socket of the session's thread
KillChan_Mut(i) == i
\* the socket the caller passes to _send_kill_build for session i: launch_build
\* keeps its socket local and returns only build_info, so it is the caller's own
KillChan(i) == 0

\* ------------------------------------------------------------ actions
\* launch_build up to the blocking recv_json of _send_start_build: a new
\* context and REQ socket, connect, send_json(start_build)
LaunchBuild_Send ==
    /\ callerPc = "idle"
    /\ \E i \in Sessions :
        /\ outcome[i] = "none"
        /\ \A j \in Sessions : j < i => outcome[j] # "none"
        /\ sock' = [sock EXCEPT ![SessChan(i)] = "awaiting"]
        /\ startSent' = [startSent EXCEPT ![i] = @ + 1]
        /\ \E addr \in AddressChoices :
               startMsg' = [startMsg EXCEPT ![i] = StartBuildRequest(addr)]
        /\ outcome' = [outcome EXCEPT ![i] = "pending"]
        /\ cur' = i
    /\ callerPc' = "start_recv"
    /\ UNCHANGED <<startReply, build_info, returned, efsm, threadVars, killVars>>
    /\ UNCHANGED audioVars

\* the start reply arrives: _send_start_build returns it, launch_build starts
\* the daemon thread on (socket, build_info) and returns build_info
LaunchBuild_Recv ==
    /\ callerPc = "start_recv"
    /\ \E reply \in StartReplies :
        /\ startReply' = [startReply EXCEPT ![cur] = reply]
        /\ build_info' = [build_info EXCEPT ![cur] = StartBuildResult(reply)]
        /\ returned' = [returned EXCEPT ![cur] = StartBuildResult(reply)]
    /\ sock' = [sock EXCEPT ![SessChan(cur)] = "ready"]
    /\ thread' = [thread EXCEPT ![cur] = "send"]
    /\ outcome' = [outcome EXCEPT ![cur] = "returned"]
    /\ callerPc' = "idle"
    /\ cur' = 0
    /\ UNCHANGED <<startSent, startMsg, efsm, slept, sinceKa, kaSent, kaReplied, kaMsg,
                   killSent, killErr>>
    /\ UNCHANGED audioVars

\* recv_json of _send_start_build raises (zmq.ZMQError, or a reply that is not
\* JSON): nothing catches it, so it leaves launch_build; no thread is started
LaunchBuild_Raise ==
    /\ callerPc = "start_recv"
    /\ outcome' = [outcome EXCEPT ![cur] = "raised"]
    /\ callerPc' = "idle"
    /\ cur' = 0
    /\ UNCHANGED <<startReply, build_info, returned, startSent, startMsg, sock, efsm,
                   threadVars, killVars>>
    /\ UNCHANGED audioVars

\* _keep_alive_thread at the top of its loop calls _send_keep_alive, which
\* reads build_info["build_port"] (KeyError), then send_json (EFSM when the
\* socket awaits a reply) and then blocks in recv_json
KeepAlive_Send(i) ==
    /\ thread[i] = "send"
    /\ IF ~HasPort(build_info[i])
       THEN /\ thread' = [thread EXCEPT ![i] = "keyerror"]
            /\ sinceKa' = [sinceKa EXCEPT ![i] = 0]
            /\ UNCHANGED <<sock, efsm, kaSent, kaMsg>>
       ELSE IF sock[SessChan(i)] # "ready"
       THEN /\ thread' = [thread EXCEPT ![i] = "zmqerror"]
            /\ efsm' = [efsm EXCEPT ![SessChan(i)] = TRUE]
            /\ sinceKa' = [sinceKa EXCEPT ![i] = 0]
            /\ UNCHANGED <<sock, kaSent, kaMsg>>
       ELSE /\ thread' = [thread EXCEPT ![i] = "recv"]
            /\ sock' = [sock EXCEPT ![SessChan(i)] = "awaiting"]
            /\ kaMsg' = [kaMsg EXCEPT ![i] = KeepAliveRequest(build_info[i])]
            /\ kaSent' = [kaSent EXCEPT ![i] = TRUE]
            /\ sinceKa' = [sinceKa EXCEPT ![i] = 0]
            /\ efsm' = efsm
    /\ UNCHANGED <<callerVars, slept, kaReplied, killVars>>
    /\ UNCHANGED audioVars

\* the heartbeat reply arrives: _send_keep_alive returns and the thread
\* enters time.sleep(60)
KeepAlive_Recv(i) ==
    /\ thread[i] = "recv"
    /\ sock[SessChan(i)] = "awaiting"
    /\ sock' = [sock EXCEPT ![SessChan(i)] = "ready"]
    /\ kaReplied' = [kaReplied EXCEPT ![i] = TRUE]
    /\ thread' = [thread EXCEPT ![i] = "sleep"]
    /\ slept' = [slept EXCEPT ![i] = 0]
    /\ UNCHANGED <<callerVars, efsm, sinceKa, kaSent, kaMsg, killVars>>
    /\ UNCHANGED audioVars

\* the keep_alive exchange raises in recv_json: nothing in _keep_alive_thread
\* catches it, so the thread's target ends; nothing else is told
KeepAlive_Raise(i) ==
    /\ thread[i] = "recv"
    /\ thread' = [thread EXCEPT ![i] = ThreadAfterRaise]
    /\ sinceKa' = [sinceKa EXCEPT ![i] = 0]
    /\ UNCHANGED <<callerVars, sock, efsm, slept, kaSent, kaReplied, kaMsg, killVars>>
    /\ UNCHANGED audioVars

\* time.sleep(60) returns and the loop goes round
Wake(i) ==
    /\ thread[i] = "sleep"
    /\ SleepDone(slept[i])
    /\ thread' = [thread EXCEPT ![i] = "send"]
    /\ slept' = [slept EXCEPT ![i] = 0]
    /\ UNCHANGED <<callerVars, sock, efsm, sinceKa, kaSent, kaReplied, kaMsg, killVars>>
    /\ UNCHANGED audioVars

\* the caller calls _send_kill_build(socket, build_info) with a build_info
\* that launch_build returned: build_info["build_port"] (KeyError), send_json,
\* then it blocks in recv_json
SendKillBuild_Send(i) ==
    /\ callerPc = "idle"
    /\ outcome[i] = "returned"
    /\ IF ~HasPort(returned[i])
       THEN /\ killErr' = TRUE
            /\ UNCHANGED <<callerPc, cur, sock, efsm, killSent>>
       ELSE IF sock[KillChan(i)] # "ready"
       THEN /\ efsm' = [efsm EXCEPT ![KillChan(i)] = TRUE]
            /\ UNCHANGED <<callerPc, cur, sock, killSent, killErr>>
       ELSE /\ sock' = [sock EXCEPT ![KillChan(i)] = "awaiting"]
            /\ killSent' = [killSent EXCEPT ![i] = TRUE]
            /\ callerPc' = "kill_recv"
            /\ cur' = i
            /\ UNCHANGED <<efsm, killErr>>
    /\ UNCHANGED <<outcome, startReply, build_info, returned, startSent, startMsg, threadVars>>
    /\ UNCHANGED audioVars

\* the kill reply arrives and _send_kill_build returns it
SendKillBuild_Recv ==
    /\ callerPc = "kill_recv"
    /\ sock' = [sock EXCEPT ![KillChan(cur)] = "ready"]
    /\ callerPc' = "idle"
    /\ cur' = 0
    /\ UNCHANGED <<outcome, startReply, build_info, returned, startSent, startMsg, efsm,
                   threadVars, killVars>>
    /\ UNCHANGED audioVars

\* the controller finishes and the interpreter exits: the keep-alive threads
\* are daemon threads (thread.setDaemon(True)) and end with it
ProcessExit ==
    /\ callerPc = "idle"
    /\ callerPc' = "exited"
    /\ thread' = [i \in Sessions |-> IF Live(i) THEN "killed" ELSE thread[i]]
    /\ slept' = [i \in Sessions |-> 0]
    /\ sinceKa' = [i \in Sessions |-> 0]
    /\ UNCHANGED <<cur, outcome, startReply, build_info, returned, startSent, startMsg,
                   sock, efsm, kaSent, kaReplied, kaMsg, killVars>>
    /\ UNCHANGED audioVars

\* Tick seconds pass
Advance ==
    /\ callerPc # "exited"
    /\ slept' = [i \in Sessions |-> IF thread[i] = "sleep" THEN Elapse(slept[i]) ELSE slept[i]]
    /\ sinceKa' = [i \in Sessions |->
                      IF Live(i) /\ kaSent[i] THEN Elapse(sinceKa[i]) ELSE sinceKa[i]]
    /\ UNCHANGED <<callerVars, sock, efsm, thread, kaSent, kaReplied, kaMsg, killVars>>
    /\ UNCHANGED audioVars

Next ==
    \/ LaunchBuild_Send
    \/ LaunchBuild_Recv
    \/ LaunchBuild_Raise
    \/ \E i \in Sessions : KeepAlive_Send(i)
    \/ \E i \in Sessions : KeepAlive_Recv(i)
    \/ \E i \in Sessions : KeepAlive_Raise(i)
    \/ \E i \in Sessions : Wake(i)
    \/ \E i \in Sessions : SendKillBuild_Send(i)
    \/ SendKillBuild_Recv
    \/ ProcessExit
    \/ Advance

Spec == Init /\ [][Next]_vars

\* The threads and the clock keep running: a thread that can wake or send does.
\* Whether a reply arrives is the daemon's doing and the network's, and what
\* the caller calls next is the caller's: neither is promised.
FairSpec ==
    /\ Spec
    /\ WF_vars(Advance)
    /\ \A i \in Sessions : WF_vars(Wake(i)) /\ WF_vars(KeepAlive_Send(i))

\* ---------------------------------------------------------- AudioUtils
Pid(n) == [pid |-> n]
Device(d) == [device |-> d]
\* what get_system_audio_device finds in fmedia --list-dev: a "Stereo Mix"
\* capture device, or none (its assertion then fails)
DeviceSearch == {Device("1"), Device("2"), None}

\* a stop() that runs the quit command whether or not a recorder is tracked
StopQuits_Mut(pid) == TRUE
\* AudioUtils.stop: if AudioUtils.RECORDER_PID is not None
StopQuits(pid) == pid # None

\* AudioUtils.is_recording: RECORDER_PID is not None and pid_exists(RECORDER_PID)
is_recording == RECORDER_PID # None /\ RECORDER_PID.pid \in procs

\* AudioUtils.start: set DEVICE if it is None (AssertionError when no device is
\* found), then Popen the recorder and keep its pid in RECORDER_PID; a
\* recorder started earlier and not stopped is left running, untracked
AudioStart ==
    /\ \E found \in DeviceSearch :
        IF DEVICE = None /\ found = None
        THEN /\ lastOp' = "start_failed"
             /\ UNCHANGED <<RECORDER_PID, DEVICE, procs, startedSinceStop>>
        ELSE /\ DEVICE' = (IF DEVICE = None THEN found ELSE DEVICE)
             /\ \E n \in (1..MaxPid) \ procs :
                    /\ RECORDER_PID' = Pid(n)
                    /\ procs' = procs \cup {n}
             /\ startedSinceStop' = TRUE
             /\ lastOp' = "start"
    /\ prevOp' = lastOp
    /\ UNCHANGED <<quitIssued, launchVars>>

\* AudioUtils.stop: with a tracked pid, run fmedia --globcmd=quit (which ends
\* the recorders that listen for it) and forget the pid; else do nothing
AudioStop ==
    /\ IF StopQuits(RECORDER_PID)
       THEN /\ quitIssued' = TRUE
            /\ \E gone \in SUBSET procs : procs' = procs \ gone
            /\ RECORDER_PID' = None
       ELSE /\ quitIssued' = FALSE
            /\ UNCHANGED <<RECORDER_PID, procs>>
    /\ startedSinceStop' = FALSE
    /\ prevOp' = lastOp
    /\ lastOp' = "stop"
    /\ UNCHANGED <<DEVICE, launchVars>>

\* a recorder process ends by itself (--until reached, or it failed)
RecorderExits ==
    /\ \E n \in procs : procs' = procs \ {n}
    /\ UNCHANGED <<RECORDER_PID, DEVICE, quitIssued, prevOp, lastOp, startedSinceStop,
                   launchVars>>

AudioNext ==
    \/ AudioStart
    \/ AudioStop
    \/ RecorderExits

\* AudioUtils used on its own: start, stop and the recorders' own exits
AudioSpec == Init /\ [][AudioNext]_vars

\* ------------------------------------------------------------- claims
\* the step in which session i's thread sends a keep_alive
KaSendStep(i) == thread[i] = "send" /\ thread'[i] = "recv"
\* the step in which the caller sends a kill_build for session i
KillSendStep(i) == callerPc = "idle" /\ callerPc' = "kill_recv" /\ cur' = i
\* the status the registry holds for a session identifier
RegistryStatus(p) == IF p \in DOMAIN SessionRegistry THEN SessionRegistry[p].status ELSE "absent"
\* the tasks blocked in recv_json on channel c
Waiters(c) ==
    (IF callerPc = "start_recv" /\ SessChan(cur) = c THEN 1 ELSE 0)
    + (IF callerPc = "kill_recv" /\ KillChan(cur) = c THEN 1 ELSE 0)
    + Cardinality({i \in Sessions : SessChan(i) = c /\ thread[i] = "recv"})

C2_NoKeepAliveAfterStop ==
    [][\A i \in Sessions :
          (killSent[i] \/ thread[i] \in {"zmqerror", "keyerror", "killed"}) => ~KaSendStep(i)]_vars

\* C3 as stated: stop is idempotent, so a kill_build is sent for a session only
\* if none was sent for it before and its heartbeat has not failed.
C3_StopIdempotent ==
    [][\A i \in Sessions :
          KillSendStep(i) => (~killSent[i] /\ thread[i] \notin {"zmqerror", "keyerror"})]_vars

\* C4 as stated: when a keep_alive exchange has failed, the registry status of
\* the session is Faulted and its loop has ended.
C4_FaultedOnFailure ==
    \A i \in Sessions :
        thread[i] = "zmqerror" =>
            /\ ~Live(i)
            /\ RegistryStatus(kaMsg[i].build_port) = "Faulted"

\* C5: a session's thread sends a keep_alive only when no request of the
\* session is outstanding, and, if it has sent one before, only after that
\* one's reply has been received and at least Interval seconds after that send.
C5_SequentialSpaced ==
    [][\A i \in Sessions :
          KaSendStep(i) =>
              /\ sock[i] = "ready"
              /\ kaSent[i] => (kaReplied[i] /\ sinceKa[i] >= Interval)]_vars

\* a second keep_alive of a session has just been sent
C5_Witness ==
    \E i \in Sessions : thread[i] = "recv" /\ kaReplied[i] /\ sinceKa[i] = 0

C7_StartKeepAliveKill ==
    [][\A i \in Sessions :
          KaSendStep(i) => (startReply[i] # None /\ ~killSent[i])]_vars

\* C8 as stated: when the caller has finished, every started session has had
\* its heartbeat loop stopped and a kill_build sent for it.
C8_ReleasedOnExit ==
    callerPc = "exited" =>
        \A i \in Sessions :
            (outcome[i] = "returned" /\ HasPort(returned[i])) => (~Live(i) /\ killSent[i])

\* C9 as stated: a launch_build whose start reply has no port fails and
\* returns no build_info, and no call sends more than one start_build.
C9_LaunchError ==
    \A i \in Sessions :
        /\ startSent[i] <= 1
        /\ startReply[i] = MalformedReply =>
               (outcome[i] = "raised" /\ returned[i] = None /\ thread[i] = "none")

\* C10 as stated: every task that waits for a reply is eventually unblocked,
\* by the reply or by a timeout, also when the daemon never replies.
C10_ExchangeCompletes ==
    /\ (callerPc = "start_recv") ~> (callerPc # "start_recv")
    /\ (callerPc = "kill_recv") ~> (callerPc # "kill_recv")
    /\ \A i \in Sessions : (thread[i] = "recv") ~> (thread[i] # "recv")

\* the last keep_alive of session i has had no reply
KaUnanswered(i) == kaSent[i] /\ sock[SessChan(i)] = "awaiting"

C13_UnansweredEndsHeartbeat ==
    /\ [](\A i \in Sessions :
            (thread[i] = "send" /\ kaSent[i]) => (kaReplied[i] /\ ~KaUnanswered(i)))
    /\ [][\A i \in Sessions :
            /\ KaUnanswered(i) => ~KaSendStep(i)
            /\ thread[i] = "zmqerror" => thread'[i] = "zmqerror"
            /\ (thread[i] # "zmqerror" /\ thread'[i] = "zmqerror")
                   => UNCHANGED <<callerVars, killVars>>]_vars

\* one session's keep_alive exchange has raised, another's keep_alive has had
\* no reply for a whole interval and its thread still waits; the caller is idle
C13_Witness ==
    \E i, j \in Sessions :
        /\ thread[i] = "zmqerror" /\ KaUnanswered(i)
        /\ thread[j] = "recv" /\ KaUnanswered(j) /\ sinceKa[j] >= Interval
        /\ callerPc = "idle"

\* C14: stop() runs the quit command only when a pid is tracked; after a stop()
\* RECORDER_PID is None and is_recording() is False; a stop() right after a
\* stop() runs no quit command; and is_recording() is True only if a start()
\* launched a recorder after the last stop().
C14_StopClearsRecorder ==
    /\ [](/\ lastOp = "stop" => (RECORDER_PID = None /\ ~is_recording)
          /\ (prevOp = "stop" /\ lastOp = "stop") => ~quitIssued
          /\ is_recording => (startedSinceStop /\ lastOp # "stop"))
    /\ [][(AudioStop /\ quitIssued') => RECORDER_PID # None]_vars

\* two stop() calls in a row after a recording: the second ran no quit
\* command although a recorder process still exists
C14_Witness ==
    /\ prevOp = "stop"
    /\ lastOp = "stop"
    /\ ~quitIssued
    /\ DEVICE # None
    /\ procs # {}

=============================================================================
